---- MODULE Spec2Model ----
(***************************************************************************)
(* Model of the rules-based reimbursement engine (rules_engine.py), its    *)
(* improvement loop (continuous_improvement.py) and the readers of the     *)
(* persisted rules file (monitor_progress.py, calculate_reimbursement.py). *)
(*                                                                         *)
(* Numbers.  Every decimal of the program (miles, receipts, amounts,       *)
(* scores, magnitudes) is an integer count of thousandths: 100.5 is        *)
(* 100500, the score 95.0 is 95000.  trip_duration_days and case numbers   *)
(* are plain integers.                                                     *)
(***************************************************************************)
EXTENDS Integers, Sequences, FiniteSets, TLC

VARIABLES
    rules,        \* RulesEngine.rules of the writing process: canonical key -> amount
    file,         \* the rules file on disk: [exists, text]
    last,         \* the last RulesEngine call made by the store client, with its result
    upserted,     \* history: canonical keys ever passed to add_rule
    pc,           \* position of the improvement loop
    iteration,    \* ContinuousImprovement.iteration
    max_iterations,
    top_n_errors,
    best_score,
    iterations_without_improvement,
    score,        \* score of the last evaluation
    errors,       \* error records of the last evaluation
    result,       \* the last harness invocation: [status, stdout]
    crashed,      \* an exception left run_continuous_improvement
    scored,       \* history: the scores of the iterations that went on to the
                  \* best-score update (all but one that ended the loop at the target)
    save_pc,      \* the writer's save_rules: "idle", or "writing" between open and close
    pending,      \* the part of the JSON text that save_rules has not yet written out
    previous,     \* history: the text of the rules file before the last save began
    seen          \* the last read of the rules file by a reader process

storeVars == <<rules, file>>
clientVars == <<last, upserted>>
loopVars == <<pc, iteration, max_iterations, top_n_errors, best_score,
              iterations_without_improvement, score, errors, result, crashed, scored>>
concVars == <<save_pc, pending, previous, seen>>
vars == <<storeVars, clientVars, loopVars, concVars>>

(***************************************************************************)
(* Bounds of the model: the inputs the operations are tried on.            *)
(***************************************************************************)
\* Raw inputs (days, miles, receipts).  100.5, 100.504 and the tie 100.505
\* round to 100.5; 100.51 does not: three canonical keys.
RawInputs == {<<3, 100500, 45000>>, <<3, 100504, 45000>>, <<3, 100505, 45000>>,
              <<3, 100510, 45000>>, <<1, 100500, 45000>>}
Amounts == {0, 120330}
\* the cases a manifest (private_cases.json) may list, and how many
ManifestCases == {<<3, 100504, 45000>>, <<1, 100500, 45000>>}
MaxCases == 2
\* how many lines the error section of a report may hold
MaxLines == 4
\* the largest max_iterations a run of the loop is given
MaxIter == 4
\* the largest piece of the JSON text, in tokens, that one write moves to the file
MaxTokens == 4
\* consecutive failed polls of the monitor are counted up to this many
MaxPolls == 3
\* the most arguments a command line of calculate_reimbursement.py is given
MaxArgs == 4

(***************************************************************************)
(* Key Codec                                                               *)
(***************************************************************************)
\* Ties (third decimal 5) whose double-precision value lies above the tie,
\* so that round(x, 2) goes up: 100.515 and 45.005.  Every other tie the
\* model uses (100.505, 1.005) is stored below the tie and goes down.
TiesUp == {100515, 45005}

\* round(x, 2) on thousandths; the result is again in thousandths.
Round2(x) ==
    LET q == x \div 10
        r == x % 10
    IN  IF r < 5 THEN q * 10
        ELSE IF r > 5 THEN (q + 1) * 10
        ELSE IF x \in TiesUp THEN (q + 1) * 10 ELSE q * 10

make_key(trip_duration_days, miles_traveled, total_receipts_amount) ==
    <<trip_duration_days, Round2(miles_traveled), Round2(total_receipts_amount)>>

(***************************************************************************)
(* Literals.  str(key) and json.dump write a number as a literal; eval and *)
(* float read it back.  A literal is its integer part and the digits after *)
(* the point: repr writes a float with the fewest digits that read back to *)
(* it and always at least one ("45.0"); an int has no point (frac = <<>>). *)
(***************************************************************************)
\* mutant: a literal with one digit after the point, as "%.1f" would write it
FloatRepr_OneDigit(v) ==
    [int |-> v \div 1000, frac |-> <<(v % 1000) \div 100>>]

\* float.__repr__ of a value in thousandths
FloatRepr(v) ==
    LET t  == v % 1000
        d1 == t \div 100
        d2 == (t \div 10) % 10
        d3 == t % 10
    IN  [int  |-> v \div 1000,
         frac |-> IF d3 # 0 THEN <<d1, d2, d3>>
                  ELSE IF d2 # 0 THEN <<d1, d2>>
                  ELSE <<d1>>]

\* int.__repr__
IntRepr(n) == [int |-> n, frac |-> <<>>]

\* the value, in thousandths, of the digits after the point
FracValue(ds) ==
    (IF Len(ds) >= 1 THEN ds[1] * 100 ELSE 0)
    + (IF Len(ds) >= 2 THEN ds[2] * 10 ELSE 0)
    + (IF Len(ds) >= 3 THEN ds[3] ELSE 0)

\* float(literal), eval of a float literal: thousandths
FloatValue(lit) == lit.int * 1000 + FracValue(lit.frac)

\* str(key): "(3, 100.5, 45.0)"
encode(key) == <<IntRepr(key[1]), FloatRepr(key[2]), FloatRepr(key[3])>>

\* eval(key_str)
decode(key_str) == <<key_str[1].int, FloatValue(key_str[2]), FloatValue(key_str[3])>>

(***************************************************************************)
(* Rule Store                                                              *)
(***************************************************************************)
EmptyRules == [k \in {} |-> 0]

KeyLess(a, b) ==
    \/ a[1] < b[1]
    \/ a[1] = b[1] /\ a[2] < b[2]
    \/ a[1] = b[1] /\ a[2] = b[2] /\ a[3] < b[3]

\* The keys of a store as a sequence.  The dict's iteration order is not
\* part of the model (a store is a function); the file lists the keys in
\* this fixed order.
RECURSIVE KeysInOrder(_)
KeysInOrder(S) ==
    IF S = {} THEN <<>>
    ELSE LET k == CHOOSE x \in S : \A y \in S : x = y \/ KeyLess(x, y)
         IN  <<k>> \o KeysInOrder(S \ {k})

\* The tokens of the JSON text: "{", one entry per key, "}".
LBrace == [t |-> "{"]
RBrace == [t |-> "}"]
Entry(key_str, value) == [t |-> "entry", key |-> key_str, value |-> value]

\* json.dump({str(key): value ...}, f, separators=(',', ':')): the whole text
json_dump(rs) ==
    LET ks == KeysInOrder(DOMAIN rs)
    IN  <<LBrace>> \o [i \in 1..Len(ks) |-> Entry(encode(ks[i]), FloatRepr(rs[ks[i]]))]
        \o <<RBrace>>

NoFile == [exists |-> FALSE, text |-> <<>>]
FileWith(text) == [exists |-> TRUE, text |-> text]

\* json.load raises on anything but a complete object
JsonValid(text) ==
    /\ Len(text) >= 2
    /\ text[1].t = "{"
    /\ text[Len(text)].t = "}"
    /\ \A i \in 2..(Len(text) - 1) : text[i].t = "entry"

\* data.items() of a valid text
JsonItems(text) == SubSeq(text, 2, Len(text) - 1)

\* self.rules[key] = output
SetRule(rs, key, output) ==
    [k \in DOMAIN rs \cup {key} |-> IF k = key THEN output ELSE rs[k]]

\* A key string that is no tuple literal: the empty string, on which eval
\* raises SyntaxError.
EmptyKeyStr == <<>>

\* eval(key_str) raises
EvalRaises(key_str) == key_str = EmptyKeyStr

\* the for loop of load_rules: [raised, rules], raised when eval raised
RECURSIVE LoadItems(_, _)
LoadItems(items, rs) ==
    IF items = <<>> THEN [raised |-> FALSE, rules |-> rs]
    ELSE IF EvalRaises(Head(items).key) THEN [raised |-> TRUE, rules |-> rs]
    ELSE LoadItems(Tail(items),
                   SetRule(rs, decode(Head(items).key), FloatValue(Head(items).value)))

\* mutant: the entries loaded before the exception are kept
load_rules_KeepsPartial(f) ==
    IF f.exists
    THEN IF JsonValid(f.text) THEN LoadItems(JsonItems(f.text), EmptyRules).rules
         ELSE EmptyRules
    ELSE EmptyRules

\* self.rules after load_rules; the except clause empties it
load_rules(f) ==
    IF f.exists
    THEN IF JsonValid(f.text)
         THEN LET loaded == LoadItems(JsonItems(f.text), EmptyRules)
              IN  IF loaded.raised THEN EmptyRules ELSE loaded.rules
         ELSE EmptyRules
    ELSE EmptyRules

\* the file after save_rules: open(rules_file, 'w'), json.dump, close
save_rules(rs) == FileWith(json_dump(rs))

\* mutant: the key is rounded to one decimal
add_rule_OneDecimal(rs, trip_duration_days, miles_traveled, total_receipts_amount, output) ==
    SetRule(rs, <<trip_duration_days, (Round2(miles_traveled) \div 100) * 100,
                  (Round2(total_receipts_amount) \div 100) * 100>>,
            output)

\* mutant: the rule is stored under the raw, unrounded inputs
add_rule_RawKey(rs, trip_duration_days, miles_traveled, total_receipts_amount, output) ==
    SetRule(rs, <<trip_duration_days, miles_traveled, total_receipts_amount>>, output)

add_rule(rs, trip_duration_days, miles_traveled, total_receipts_amount, output) ==
    SetRule(rs, make_key(trip_duration_days, miles_traveled, total_receipts_amount), output)

\* mutant: an absent key falls back to some rule with the same days
predict_Fallback(rs, trip_duration_days, miles_traveled, total_receipts_amount) ==
    LET key == make_key(trip_duration_days, miles_traveled, total_receipts_amount)
        near == {k \in DOMAIN rs : k[1] = trip_duration_days}
    IN  IF key \in DOMAIN rs THEN rs[key]
        ELSE IF near # {} THEN rs[CHOOSE k \in near : \A j \in near : rs[j] <= rs[k]]
        ELSE 0

predict(rs, trip_duration_days, miles_traveled, total_receipts_amount) ==
    LET key == make_key(trip_duration_days, miles_traveled, total_receipts_amount)
    IN  IF key \in DOMAIN rs THEN rs[key] ELSE 0

get_rule_count(rs) == Cardinality(DOMAIN rs)

get_zero_count(rs) == Cardinality({k \in DOMAIN rs : rs[k] = 0})

RECURSIVE AddCases(_, _)
AddCases(rs, cases) ==
    IF cases = <<>> THEN rs
    ELSE AddCases(add_rule(rs, Head(cases)[1], Head(cases)[2], Head(cases)[3], 0),
                  Tail(cases))

\* mutant: a case whose key is already present is skipped
RECURSIVE AddAbsentCases(_, _)
AddAbsentCases(rs, cases) ==
    IF cases = <<>> THEN rs
    ELSE AddAbsentCases(
            IF make_key(Head(cases)[1], Head(cases)[2], Head(cases)[3]) \in DOMAIN rs
            THEN rs
            ELSE add_rule(rs, Head(cases)[1], Head(cases)[2], Head(cases)[3], 0),
            Tail(cases))

initialize_IfAbsent(rs, f, manifest) ==
    IF manifest.exists
    THEN LET rs2 == AddAbsentCases(rs, manifest.cases)
         IN  <<rs2, save_rules(rs2)>>
    ELSE <<rs, f>>

\* mutant: the first case of the manifest is not added
initialize_SkipsFirstCase(rs, f, manifest) ==
    IF manifest.exists
    THEN LET rs2 == AddCases(rs, IF manifest.cases = <<>> THEN <<>> ELSE Tail(manifest.cases))
         IN  <<rs2, save_rules(rs2)>>
    ELSE <<rs, f>>

\* <<rules, file>> after initialize_from_private_cases; a manifest that cannot
\* be opened raises before any add_rule, and nothing is saved
initialize_from_private_cases(rs, f, manifest) ==
    IF manifest.exists
    THEN LET rs2 == AddCases(rs, manifest.cases)
         IN  <<rs2, save_rules(rs2)>>
    ELSE <<rs, f>>

(***************************************************************************)
(* Error Report Parser.  The harness output is a sequence of lines; a line *)
(* is what the parser's tests see of it:                                   *)
(*   marker       contains "Check these high-error cases:"                 *)
(*   stop         starts with one of the two closing markers               *)
(*   case         starts with "Case" and matches the case pattern          *)
(*   case_nomatch starts with "Case" and does not match it                 *)
(*   metrics      has "Expected:" and "Got:" and matches the value pattern *)
(*   exact        "Exact matches: 50 (25.0%)"                              *)
(*   average      "Average error: $10.00"                                  *)
(* A numeric token is what [\d.]+ matches: digits and points.  float()     *)
(* raises ValueError on a token with more than one point ("1.2.3").        *)
(***************************************************************************)
Token(v) == [dots |-> 1, lit |-> FloatRepr(v)]
BadToken == [dots |-> 2, lit |-> FloatRepr(0)]

\* float(token) raises
Raises(tok) == tok.dots > 1

MarkerLine == [kind |-> "marker"]
StopLine == [kind |-> "stop"]
CaseLine(n, d, miles, receipts) ==
    [kind |-> "case", case_number |-> n, days |-> d, miles |-> miles, receipts |-> receipts]
CaseNoMatchLine == [kind |-> "case_nomatch"]
MetricsLine(expected, got, error) ==
    [kind |-> "metrics", expected |-> expected, got |-> got, error |-> error]
ExactLine(pct) == [kind |-> "exact", pct |-> pct]
AverageLine(avg) == [kind |-> "average", avg |-> avg]

NoCase == [set |-> FALSE, case_number |-> 0, input |-> <<0, 0, 0>>]

ErrorCase(current_case, line) ==
    [input |-> current_case.input,
     expected_output |-> FloatValue(line.expected.lit),
     actual_output |-> FloatValue(line.got.lit),
     error_magnitude |-> FloatValue(line.error.lit),
     case_number |-> current_case.case_number]

\* The for loop of extract_errors_from_eval_output from line i on:
\* [raised, errors], raised when a float() raised ValueError.
RECURSIVE ScanLines(_, _, _, _, _)
ScanLines(lines, i, in_error_section, current_case, errs) ==
    IF i > Len(lines) THEN [raised |-> FALSE, errors |-> errs]
    ELSE LET line == lines[i] IN
        IF line.kind = "marker"
        THEN ScanLines(lines, i + 1, TRUE, current_case, errs)
        ELSE IF in_error_section /\ line.kind = "stop"
        THEN [raised |-> FALSE, errors |-> errs]
        ELSE IF in_error_section /\ line.kind = "case"
        THEN IF Raises(line.miles) \/ Raises(line.receipts)
             THEN [raised |-> TRUE, errors |-> <<>>]
             ELSE ScanLines(lines, i + 1, TRUE,
                            [set |-> TRUE, case_number |-> line.case_number,
                             input |-> <<line.days, FloatValue(line.miles.lit),
                                         FloatValue(line.receipts.lit)>>],
                            errs)
        ELSE IF in_error_section /\ line.kind = "case_nomatch"
        THEN ScanLines(lines, i + 1, TRUE, current_case, errs)
        ELSE IF in_error_section /\ line.kind = "metrics" /\ current_case.set
        THEN IF Raises(line.expected) \/ Raises(line.got) \/ Raises(line.error)
             THEN [raised |-> TRUE, errors |-> <<>>]
             ELSE ScanLines(lines, i + 1, TRUE, NoCase,
                            Append(errs, ErrorCase(current_case, line)))
        ELSE ScanLines(lines, i + 1, in_error_section, current_case, errs)

\* mutant: an ascending sort reversed, which turns the ties around
InsertDesc_TiesReversed(sorted, e) ==
    LET before == {i \in 1..Len(sorted) : sorted[i].error_magnitude > e.error_magnitude}
        n == Cardinality(before)
    IN  SubSeq(sorted, 1, n) \o <<e>> \o SubSeq(sorted, n + 1, Len(sorted))

\* list.sort(key=error_magnitude, reverse=True): descending and stable, records
\* of equal magnitude keep the order they were parsed in
InsertDesc(sorted, e) ==
    LET before == {i \in 1..Len(sorted) : sorted[i].error_magnitude >= e.error_magnitude}
        n == Cardinality(before)
    IN  SubSeq(sorted, 1, n) \o <<e>> \o SubSeq(sorted, n + 1, Len(sorted))

RECURSIVE SortDesc(_, _)
SortDesc(errs, sorted) ==
    IF errs = <<>> THEN sorted
    ELSE SortDesc(Tail(errs), InsertDesc(sorted, Head(errs)))

\* mutant: no cut, every record is returned
Take_All(errs, n) == errs

\* errors[:n]
Take(errs, n) == SubSeq(errs, 1, IF n < Len(errs) THEN n ELSE Len(errs))

extract_errors_from_eval_output(eval_output, n) ==
    LET scan == ScanLines(eval_output, 1, FALSE, NoCase, <<>>)
    IN  IF scan.raised THEN scan
        ELSE [raised |-> FALSE, errors |-> Take(SortDesc(scan.errors, <<>>), n)]

\* re.search finds the first line of the kind, if any
FirstOfKind(output, kind) ==
    LET at == {i \in 1..Len(output) : output[i].kind = kind}
    IN  IF at = {} THEN 0 ELSE CHOOSE i \in at : \A j \in at : i <= j

\* mutant: the average error is looked for first
extract_score_AverageFirst(output) ==
    LET e == FirstOfKind(output, "exact")
        a == FirstOfKind(output, "average")
    IN  IF a # 0
        THEN IF Raises(output[a].avg) THEN [raised |-> TRUE, score |-> 0]
             ELSE LET avg_error == FloatValue(output[a].avg.lit)
                  IN  [raised |-> FALSE,
                       score |-> IF 100000 - avg_error > 0 THEN 100000 - avg_error ELSE 0]
        ELSE IF e # 0
        THEN IF Raises(output[e].pct) THEN [raised |-> TRUE, score |-> 0]
             ELSE [raised |-> FALSE, score |-> FloatValue(output[e].pct.lit)]
        ELSE [raised |-> FALSE, score |-> 0]

\* [raised, score]
extract_score_from_output(output) ==
    LET e == FirstOfKind(output, "exact")
        a == FirstOfKind(output, "average")
    IN  IF e # 0
        THEN IF Raises(output[e].pct) THEN [raised |-> TRUE, score |-> 0]
             ELSE [raised |-> FALSE, score |-> FloatValue(output[e].pct.lit)]
        ELSE IF a # 0
        THEN IF Raises(output[a].avg) THEN [raised |-> TRUE, score |-> 0]
             ELSE LET avg_error == FloatValue(output[a].avg.lit)
                  IN  [raised |-> FALSE,
                       score |-> IF 100000 - avg_error > 0 THEN 100000 - avg_error ELSE 0]
        ELSE [raised |-> FALSE, score |-> 0]

\* mutant: the return code is not looked at, stdout is parsed whatever it is
run_evaluation_IgnoresReturnCode(res, n) ==
    LET errs == extract_errors_from_eval_output(res.stdout, n)
        sc == extract_score_from_output(res.stdout)
    IN  IF errs.raised \/ sc.raised THEN [score |-> 0, errors |-> <<>>]
        ELSE [score |-> sc.score, errors |-> errs.errors]

\* A harness invocation: status "ok" (return code 0, stdout), "nonzero"
\* (return code not 0) or "oserror" (subprocess.run raised).
\* run_evaluation returns [score, errors]; every exception is caught.
run_evaluation(res, n) ==
    IF res.status # "ok" THEN [score |-> 0, errors |-> <<>>]
    ELSE LET errs == extract_errors_from_eval_output(res.stdout, n)
             sc == extract_score_from_output(res.stdout)
         IN  IF errs.raised \/ sc.raised THEN [score |-> 0, errors |-> <<>>]
             ELSE [score |-> sc.score, errors |-> errs.errors]

(***************************************************************************)
(* SpecStore: a client of RulesEngine making any sequence of calls.        *)
(***************************************************************************)
SeqsUpTo(S, n) == UNION {[1..k -> S] : k \in 0..n}

\* A call record: the operation, its raw input, the amount passed or returned,
\* the manifest read, and (prev) the call made just before it.  The input and
\* the amount of the previous call are kept for a predict that follows an
\* add_rule, which is the only place they are read.
NoPrev == [op |-> "none", input |-> <<0, 0, 0>>, amount |-> 0]
NoManifest == [exists |-> FALSE, cases |-> <<>>]
Manifests ==
    {NoManifest}
    \cup {[exists |-> TRUE, cases |-> cs] : cs \in SeqsUpTo(ManifestCases, MaxCases)}
NoCall == [op |-> "none", input |-> <<0, 0, 0>>, amount |-> 0,
           manifest |-> NoManifest, prev |-> NoPrev]

Call(op, input, amount, manifest) ==
    [op |-> op, input |-> input, amount |-> amount, manifest |-> manifest,
     prev |-> IF op = "predict" /\ last.op = "add_rule"
              THEN [op |-> last.op, input |-> last.input, amount |-> last.amount]
              ELSE [NoPrev EXCEPT !.op = last.op]]

\* no read yet
\* alive: the monitor process has not been ended by an exception; failed: its
\* consecutive failed polls so far; after: those just before its last poll
NoRead == [read |-> FALSE, by |-> "none", text |-> <<>>, previous |-> <<>>, new |-> <<>>,
           error |-> FALSE, total_rules |-> 0, completed_rules |-> 0, amount |-> 0,
           alive |-> TRUE, failed |-> 0, after |-> 0]

\* no save in progress, no reader
ConcIdle ==
    /\ save_pc = "idle"
    /\ pending = <<>>
    /\ previous = <<>>
    /\ seen = NoRead

LoopIdle ==
    /\ pc = "UNINITIALIZED"
    /\ iteration = 0
    /\ max_iterations = 0
    /\ top_n_errors = 10
    /\ best_score = 0
    /\ iterations_without_improvement = 0
    /\ score = 0
    /\ errors = <<>>
    /\ result = [status |-> "none", stdout |-> <<>>]
    /\ crashed = FALSE
    /\ scored = {}

\* RulesEngine(): no rules file yet
InitStore ==
    /\ file = NoFile
    /\ rules = load_rules(file)
    /\ last = NoCall
    /\ upserted = {}
    /\ LoopIdle
    /\ ConcIdle

AddRule(in, output) ==
    /\ rules' = add_rule(rules, in[1], in[2], in[3], output)
    /\ last' = Call("add_rule", in, output, NoManifest)
    /\ upserted' = upserted \cup {make_key(in[1], in[2], in[3])}
    /\ UNCHANGED <<file, loopVars, concVars>>

Predict(in) ==
    /\ last' = Call("predict", in, predict(rules, in[1], in[2], in[3]), NoManifest)
    /\ UNCHANGED <<storeVars, upserted, loopVars, concVars>>

SaveRules ==
    /\ file' = save_rules(rules)
    /\ last' = Call("save_rules", <<0, 0, 0>>, 0, NoManifest)
    /\ UNCHANGED <<rules, upserted, loopVars, concVars>>

LoadRules ==
    /\ rules' = load_rules(file)
    /\ last' = Call("load_rules", <<0, 0, 0>>, 0, NoManifest)
    /\ UNCHANGED <<file, upserted, loopVars, concVars>>

InitializeFromPrivateCases(manifest) ==
    /\ rules' = initialize_from_private_cases(rules, file, manifest)[1]
    /\ file' = initialize_from_private_cases(rules, file, manifest)[2]
    /\ last' = Call("initialize_from_private_cases", <<0, 0, 0>>, 0, manifest)
    /\ upserted' = upserted \cup
                   (IF manifest.exists
                    THEN {make_key(manifest.cases[i][1], manifest.cases[i][2], manifest.cases[i][3]) :
                            i \in 1..Len(manifest.cases)}
                    ELSE {})
    /\ UNCHANGED <<loopVars, concVars>>

NextStore ==
    \/ \E in \in RawInputs, output \in Amounts : AddRule(in, output)
    \/ \E in \in RawInputs : Predict(in)
    \/ SaveRules
    \/ LoadRules
    \/ \E manifest \in Manifests : InitializeFromPrivateCases(manifest)

SpecStore == InitStore /\ [][NextStore]_vars

(***************************************************************************)
(* SpecParse: the parser's functions applied to one harness invocation.    *)
(***************************************************************************)
CaseA == CaseLine(2, 3, Token(100504), Token(45000))
CaseB == CaseLine(1, 1, Token(100500), Token(45000))
CaseBadToken == CaseLine(3, 3, BadToken, Token(45000))
Metrics1 == MetricsLine(Token(120330), Token(0), Token(120330))
Metrics2 == MetricsLine(Token(50000), Token(0), Token(50000))
MetricsBadToken == MetricsLine(Token(120330), Token(0), BadToken)
Exact25 == ExactLine(Token(25000))
Average10 == AverageLine(Token(10000))

\* the lines of the error section
SectionLines == {CaseA, CaseB, CaseBadToken, CaseNoMatchLine,
                 Metrics1, Metrics2, MetricsBadToken}
\* what precedes the marker: nothing, a score line, or a pair outside the section
Preambles == {<<>>, <<Exact25>>, <<CaseB, Metrics2>>}
\* the summary lines alone, in every combination extract_score tells apart
ScoreOnly == {<<Average10>>, <<Average10, Exact25>>, <<Exact25, Average10>>,
              <<AverageLine(Token(150000))>>, <<ExactLine(BadToken)>>,
              <<AverageLine(BadToken)>>}
\* what follows the section: nothing, or a closing marker and more lines
Tails == {<<>>, <<StopLine, Metrics1>>}
TopNs == {1, 10}

Reports ==
    {p \o <<MarkerLine>> \o b \o t :
        p \in Preambles, b \in SeqsUpTo(SectionLines, MaxLines), t \in Tails}
    \cup ScoreOnly

HarnessResults ==
    {[status |-> "ok", stdout |-> r] : r \in Reports}
    \cup {[status |-> "nonzero", stdout |-> <<>>], [status |-> "oserror", stdout |-> <<>>]}

InitParse ==
    /\ result \in HarnessResults
    /\ top_n_errors \in TopNs
    /\ pc = "harness_returned"
    /\ score = 0
    /\ errors = <<>>
    /\ crashed = FALSE
    /\ scored = {}
    /\ iteration = 0
    /\ max_iterations = 0
    /\ best_score = 0
    /\ iterations_without_improvement = 0
    /\ rules = EmptyRules
    /\ file = NoFile
    /\ last = NoCall
    /\ upserted = {}
    /\ ConcIdle

\* extract_errors_from_eval_output(result.stdout) called on its own
ExtractErrors ==
    /\ pc = "harness_returned"
    /\ result.status = "ok"
    /\ pc' = "extract_errors"
    /\ errors' = extract_errors_from_eval_output(result.stdout, top_n_errors).errors
    /\ crashed' = extract_errors_from_eval_output(result.stdout, top_n_errors).raised
    /\ UNCHANGED <<concVars, storeVars, clientVars, iteration, max_iterations, top_n_errors,
                   best_score, iterations_without_improvement, scored, score, result>>

\* extract_score_from_output(result.stdout) called on its own
ExtractScore ==
    /\ pc = "harness_returned"
    /\ result.status = "ok"
    /\ pc' = "extract_score"
    /\ score' = extract_score_from_output(result.stdout).score
    /\ crashed' = extract_score_from_output(result.stdout).raised
    /\ UNCHANGED <<concVars, storeVars, clientVars, iteration, max_iterations, top_n_errors,
                   best_score, iterations_without_improvement, scored, errors, result>>

\* run_evaluation() whose subprocess.run gave result
RunEvaluation ==
    /\ pc = "harness_returned"
    /\ pc' = "run_evaluation"
    /\ score' = run_evaluation(result, top_n_errors).score
    /\ errors' = run_evaluation(result, top_n_errors).errors
    /\ UNCHANGED <<concVars, storeVars, clientVars, iteration, max_iterations, top_n_errors,
                   best_score, iterations_without_improvement, scored, result, crashed>>

NextParse == ExtractErrors \/ ExtractScore \/ RunEvaluation

SpecParse == InitParse /\ [][NextParse]_vars

(***************************************************************************)
(* Improvement Loop (Spec): run_continuous_improvement on a fresh          *)
(* ContinuousImprovement, one action per step of the loop.  pc is where    *)
(* the loop is, or how the for loop was left:                              *)
(*   UNINITIALIZED  before run_continuous_improvement                      *)
(*   EVALUATING     at the head of the for loop, about to run_iteration    *)
(*   UPDATING       run_evaluation returned, update_rules_from_errors next *)
(*   CHECKING       run_iteration returned, the convergence checks next    *)
(*   CONVERGED      break on score >= target_score                         *)
(*   STAGNATED      break on iterations_without_improvement                *)
(*   EXHAUSTED      range(max_iterations) ran out                          *)
(* crashed: the summary after the loop raised and the exception left       *)
(* run_continuous_improvement.                                             *)
(***************************************************************************)
target_score == 95000
max_stagnant_iterations == 2

Terminal == {"CONVERGED", "STAGNATED", "EXHAUSTED"}

CaseC == CaseLine(4, 3, Token(100500), Token(45000))
Exact10 == ExactLine(Token(10000))
Exact50 == ExactLine(Token(50000))
Exact96 == ExactLine(Token(96000))

\* the reports the harness gives the loop: a summary line or none, the marker,
\* and a section of no, one or two records (two keys, or twice the same key),
\* or one with a malformed token
LoopSummaries == {<<>>, <<Exact10>>, <<Exact50>>, <<Exact96>>}
LoopSections == {<<>>,
                 <<CaseA, Metrics1>>,
                 <<CaseA, Metrics1, CaseB, Metrics2>>,
                 <<CaseC, Metrics2, CaseA, Metrics1>>,
                 <<CaseB, Metrics1, CaseBadToken>>}
LoopReports == {h \o <<MarkerLine>> \o b : h \in LoopSummaries, b \in LoopSections}

\* a harness that failed: it may have printed a report before exiting non-zero
FailedResults ==
    {[status |-> "nonzero", stdout |-> <<Exact96, MarkerLine, CaseA, Metrics1>>],
     [status |-> "oserror", stdout |-> <<>>]}

LoopResults == {[status |-> "ok", stdout |-> r] : r \in LoopReports} \cup FailedResults

\* the rules file found by RulesEngine.__init__: none, an empty store, a store
\* with a learned amount
LearnedRules == add_rule(EmptyRules, 3, 100500, 45000, 120330)
InitialFiles == {NoFile, save_rules(EmptyRules), save_rules(LearnedRules)}

Init ==
    /\ file \in InitialFiles
    /\ rules = load_rules(file)
    /\ pc = "UNINITIALIZED"
    /\ iteration = 0
    /\ max_iterations \in 0..MaxIter
    /\ top_n_errors \in TopNs
    /\ best_score = 0
    /\ iterations_without_improvement = 0
    /\ score = 0
    /\ errors = <<>>
    /\ result = [status |-> "none", stdout |-> <<>>]
    /\ crashed = FALSE
    /\ scored = {}
    /\ last = NoCall
    /\ upserted = {}
    /\ ConcIdle

\* ContinuousImprovement.update_rules_from_errors and the engine's:
\* <<rules, file>> after it
RECURSIVE AddErrors(_, _)
AddErrors(rs, errs) ==
    IF errs = <<>> THEN rs
    ELSE AddErrors(add_rule(rs, Head(errs).input[1], Head(errs).input[2],
                            Head(errs).input[3], Head(errs).expected_output),
                   Tail(errs))

\* mutant: the rules are updated in memory and not saved
update_rules_NoSave(rs, f, errs) ==
    IF errs = <<>> THEN <<rs, f>>
    ELSE <<AddErrors(rs, errs), f>>

update_rules_from_errors(rs, f, errs) ==
    IF errs = <<>> THEN <<rs, f>>
    ELSE LET rs2 == AddErrors(rs, errs)
         IN  <<rs2, save_rules(rs2)>>

\* the summary after the loop: score is unbound when no iteration ran, and the
\* completion rate divides by get_rule_count()
SummaryRaises(rs, it) == it = 0 \/ get_rule_count(rs) = 0

\* run_continuous_improvement up to the head of the for loop
Start(manifest) ==
    /\ pc = "UNINITIALIZED"
    /\ rules' = IF get_rule_count(rules) = 0
                THEN initialize_from_private_cases(rules, file, manifest)[1]
                ELSE rules
    /\ file' = IF get_rule_count(rules) = 0
               THEN initialize_from_private_cases(rules, file, manifest)[2]
               ELSE file
    /\ best_score' = 0
    /\ iterations_without_improvement' = 0
    /\ pc' = IF max_iterations > 0 THEN "EVALUATING" ELSE "EXHAUSTED"
    /\ crashed' = (max_iterations = 0 /\ SummaryRaises(rules', 0))
    /\ scored' = {}
    /\ UNCHANGED <<concVars, clientVars, iteration, max_iterations, top_n_errors, score, errors, result>>

\* run_iteration: self.iteration += 1 and run_evaluation, the harness giving res
Evaluate(res) ==
    /\ pc = "EVALUATING"
    /\ iteration' = iteration + 1
    /\ result' = res
    /\ score' = run_evaluation(res, top_n_errors).score
    /\ errors' = run_evaluation(res, top_n_errors).errors
    /\ pc' = "UPDATING"
    /\ UNCHANGED <<concVars, storeVars, clientVars, max_iterations, top_n_errors, best_score,
                   iterations_without_improvement, scored, crashed>>

\* run_iteration: update_rules_from_errors(errors), then it returns
Update ==
    /\ pc = "UPDATING"
    /\ rules' = update_rules_from_errors(rules, file, errors)[1]
    /\ file' = update_rules_from_errors(rules, file, errors)[2]
    /\ errors' = <<>>
    /\ pc' = "CHECKING"
    /\ UNCHANGED <<concVars, clientVars, iteration, max_iterations, top_n_errors, best_score,
                   iterations_without_improvement, scored, score, result, crashed>>

\* mutant: an equal score counts as an improvement
convergence_check_GreaterEqual(sc, best, stagnant, it, maxit) ==
    IF sc >= target_score
    THEN [pc |-> "CONVERGED", best_score |-> best, iterations_without_improvement |-> stagnant]
    ELSE LET best2 == IF sc >= best THEN sc ELSE best
             stagnant2 == IF sc >= best THEN 0 ELSE stagnant + 1
         IN  [pc |-> IF stagnant2 >= max_stagnant_iterations THEN "STAGNATED"
                     ELSE IF it < maxit THEN "EVALUATING" ELSE "EXHAUSTED",
              best_score |-> best2,
              iterations_without_improvement |-> stagnant2]

\* mutant: an iteration that reaches the target is recorded as the new best
convergence_check_RecordsTarget(sc, best, stagnant, it, maxit) ==
    IF sc >= target_score
    THEN [pc |-> "CONVERGED", best_score |-> sc, iterations_without_improvement |-> 0]
    ELSE LET best2 == IF sc > best THEN sc ELSE best
             stagnant2 == IF sc > best THEN 0 ELSE stagnant + 1
         IN  [pc |-> IF stagnant2 >= max_stagnant_iterations THEN "STAGNATED"
                     ELSE IF it < maxit THEN "EVALUATING" ELSE "EXHAUSTED",
              best_score |-> best2,
              iterations_without_improvement |-> stagnant2]

\* mutant: the loop stops one iteration after the window is full
convergence_check_WindowExceeded(sc, best, stagnant, it, maxit) ==
    IF sc >= target_score
    THEN [pc |-> "CONVERGED", best_score |-> best, iterations_without_improvement |-> stagnant]
    ELSE LET best2 == IF sc > best THEN sc ELSE best
             stagnant2 == IF sc > best THEN 0 ELSE stagnant + 1
         IN  [pc |-> IF stagnant2 > max_stagnant_iterations THEN "STAGNATED"
                     ELSE IF it < maxit THEN "EVALUATING" ELSE "EXHAUSTED",
              best_score |-> best2,
              iterations_without_improvement |-> stagnant2]

\* mutant: the iteration count is tested before the stagnation counter
convergence_check_ExhaustedFirst(sc, best, stagnant, it, maxit) ==
    IF sc >= target_score
    THEN [pc |-> "CONVERGED", best_score |-> best, iterations_without_improvement |-> stagnant]
    ELSE LET best2 == IF sc > best THEN sc ELSE best
             stagnant2 == IF sc > best THEN 0 ELSE stagnant + 1
         IN  [pc |-> IF it >= maxit THEN "EXHAUSTED"
                     ELSE IF stagnant2 >= max_stagnant_iterations THEN "STAGNATED"
                     ELSE "EVALUATING",
              best_score |-> best2,
              iterations_without_improvement |-> stagnant2]

\* the body of the for loop after run_iteration, and the loop head that follows
convergence_check(sc, best, stagnant, it, maxit) ==
    IF sc >= target_score
    THEN [pc |-> "CONVERGED", best_score |-> best, iterations_without_improvement |-> stagnant]
    ELSE LET best2 == IF sc > best THEN sc ELSE best
             stagnant2 == IF sc > best THEN 0 ELSE stagnant + 1
         IN  [pc |-> IF stagnant2 >= max_stagnant_iterations THEN "STAGNATED"
                     ELSE IF it < maxit THEN "EVALUATING" ELSE "EXHAUSTED",
              best_score |-> best2,
              iterations_without_improvement |-> stagnant2]

Check ==
    /\ pc = "CHECKING"
    /\ LET c == convergence_check(score, best_score, iterations_without_improvement,
                                  iteration, max_iterations)
       IN  /\ pc' = c.pc
           /\ best_score' = c.best_score
           /\ iterations_without_improvement' = c.iterations_without_improvement
           /\ crashed' = (c.pc \in Terminal /\ SummaryRaises(rules, iteration))
           /\ scored' = IF score >= target_score THEN scored ELSE scored \cup {score}
    /\ UNCHANGED <<concVars, storeVars, clientVars, iteration, max_iterations, top_n_errors,
                   score, errors, result>>

LoopNext(results) ==
    \/ \E manifest \in Manifests : Start(manifest)
    \/ \E res \in results : Evaluate(res)
    \/ Update
    \/ Check

Next == LoopNext(LoopResults)

Spec == Init /\ [][Next]_vars

\* the loop with a harness whose every evaluation scores 10.0
Always10 == {res \in LoopResults : run_evaluation(res, 1).score = 10000}

SpecAlways10 == Init /\ [][LoopNext(Always10)]_vars

\* the loop with a harness whose every evaluation scores 0.0: it fails, or
\* its report has a summary of 0.0% or no summary, with or without records
Exact0 == ExactLine(Token(0))
ZeroReports == {<<Exact0, MarkerLine>> \o b : b \in LoopSections}
Always0 ==
    {res \in LoopResults \cup {[status |-> "ok", stdout |-> r] : r \in ZeroReports} :
        run_evaluation(res, 1).score = 0}

SpecAlways0 == Init /\ [][LoopNext(Always0)]_vars

(***************************************************************************)
(* SpecConc: the loop saving the rules file while another process reads    *)
(* it.  save_rules is open(rules_file, 'w'), which truncates the file,     *)
(* then json.dump, whose text reaches the file in pieces, at the latest    *)
(* when the file is closed.  A reader opens the file and reads all of it   *)
(* in one step.                                                            *)
(***************************************************************************)
\* the value json.load gives for the last entry with this key
LastValue(items, key_str) ==
    LET at == {i \in 1..Len(items) : items[i].key = key_str}
    IN  items[CHOOSE i \in at : \A j \in at : j <= i].value

\* mutant: no except clause, the exception of open or json.load leaves the call
get_completion_stats_NoExcept(f) ==
    IF f.exists /\ JsonValid(f.text)
    THEN LET items == JsonItems(f.text)
             keys == {items[i].key : i \in 1..Len(items)}
         IN  [error |-> FALSE, raised |-> FALSE,
              total_rules |-> Cardinality(keys),
              completed_rules |->
                  Cardinality({k \in keys : FloatValue(LastValue(items, k)) # 0})]
    ELSE [error |-> TRUE, raised |-> TRUE, total_rules |-> 0, completed_rules |-> 0]

\* ProgressMonitor.get_completion_stats: the counts, or the error record of
\* the except clause; raised: an exception left the call
get_completion_stats(f) ==
    IF f.exists /\ JsonValid(f.text)
    THEN LET items == JsonItems(f.text)
             keys == {items[i].key : i \in 1..Len(items)}
         IN  [error |-> FALSE, raised |-> FALSE,
              total_rules |-> Cardinality(keys),
              completed_rules |->
                  Cardinality({k \in keys : FloatValue(LastValue(items, k)) # 0})]
    ELSE [error |-> TRUE, raised |-> FALSE, total_rules |-> 0, completed_rules |-> 0]

\* the error lists the loop may be updating from
ConcUpdates == {run_evaluation(res, 10).errors : res \in LoopResults} \ {<<>>}

InitConc ==
    /\ rules = LearnedRules
    /\ file = save_rules(rules)
    /\ save_pc = "idle"
    /\ pending = <<>>
    /\ previous = file.text
    /\ seen = NoRead
    /\ last = NoCall
    /\ upserted = {}
    /\ LoopIdle

\* update_rules_from_errors up to open(self.rules_file, 'w'): the add_rule
\* calls change the memory of the loop only, the open truncates the file
UpdateOpen(errs) ==
    /\ save_pc = "idle"
    /\ rules' = AddErrors(rules, errs)
    /\ previous' = file.text
    /\ file' = FileWith(<<>>)
    /\ pending' = json_dump(rules')
    /\ save_pc' = "writing"
    /\ UNCHANGED <<seen, clientVars, loopVars>>

\* json.dump: the next k tokens reach the file; after the last the file is closed
SaveWrite(k) ==
    /\ save_pc = "writing"
    /\ k \in 1..Len(pending)
    /\ file' = FileWith(file.text \o SubSeq(pending, 1, k))
    /\ pending' = SubSeq(pending, k + 1, Len(pending))
    /\ save_pc' = IF k = Len(pending) THEN "idle" ELSE "writing"
    /\ UNCHANGED <<rules, previous, seen, clientVars, loopVars>>

\* what a read finds: the text, and for the claim the texts before and after
\* the save in progress (or the last one)
Read(by, stats, amount) ==
    [read |-> TRUE, by |-> by, text |-> file.text, previous |-> previous,
     new |-> file.text \o pending,
     error |-> stats.error, total_rules |-> stats.total_rules,
     completed_rules |-> stats.completed_rules, amount |-> amount,
     alive |-> IF by = "monitor" THEN ~stats.raised ELSE seen.alive,
     failed |-> IF by # "monitor" THEN seen.failed
                ELSE IF ~stats.error THEN 0
                ELSE IF seen.failed < MaxPolls THEN seen.failed + 1 ELSE MaxPolls,
     after |-> IF by = "monitor" THEN seen.failed ELSE seen.after]

\* ProgressMonitor.run_monitor: one turn of its loop, display_progress
MonitorPoll ==
    /\ seen.alive
    /\ seen' = Read("monitor", get_completion_stats(file), 0)
    /\ UNCHANGED <<storeVars, save_pc, pending, previous, clientVars, loopVars>>

\* calculate_reimbursement.py <days> <miles> <receipts>: load_engine, predict
Lookup(in) ==
    /\ LET engine == load_rules(file)
       IN  seen' = Read("lookup",
                        [error |-> ~(file.exists /\ JsonValid(file.text)), raised |-> FALSE,
                         total_rules |-> get_rule_count(engine),
                         completed_rules |-> get_rule_count(engine) - get_zero_count(engine)],
                        predict(engine, in[1], in[2], in[3]))
    /\ UNCHANGED <<storeVars, save_pc, pending, previous, clientVars, loopVars>>

NextConc ==
    \/ \E errs \in ConcUpdates : UpdateOpen(errs)
    \/ \E k \in 1..MaxTokens : SaveWrite(k)
    \/ MonitorPoll
    \/ \E in \in RawInputs : Lookup(in)

SpecConc == InitConc /\ [][NextConc]_vars

\* C7: save_rules replaces the rules file atomically: a whole-file read by the
\* Progress Observer or the lookup CLI, however it interleaves with a save of
\* the loop, finds the complete previous contents or the complete new
\* contents, never an empty or partially written file.
C7_ReaderSeesWholeFile ==
    seen.read =>
        /\ JsonValid(seen.text)
        /\ seen.text = seen.previous \/ seen.text = seen.new

(***************************************************************************)
(* SpecLoad: a RulesEngine constructed on whatever rules file is found,    *)
(* sound or not, and then used.                                            *)
(***************************************************************************)
TwoRules == add_rule(LearnedRules, 1, 100500, 45000, 0)

\* a complete text with a key that eval rejects between two sound entries,
\* and one with such a key alone
TextWithBadKey ==
    <<LBrace, json_dump(TwoRules)[2], Entry(EmptyKeyStr, FloatRepr(120330)),
      json_dump(TwoRules)[3], RBrace>>
TextOnlyBadKey == <<LBrace, Entry(EmptyKeyStr, FloatRepr(120330)), RBrace>>

\* the files found: none, empty, cut off after the first entry, not JSON,
\* with malformed keys, sound
FoundFiles ==
    {NoFile, FileWith(<<>>), FileWith(SubSeq(json_dump(TwoRules), 1, 2)),
     FileWith(<<[t |-> "garbage"]>>), FileWith(TextWithBadKey),
     FileWith(TextOnlyBadKey), save_rules(EmptyRules), save_rules(TwoRules)}

\* RulesEngine(): __init__ loads the file found
InitLoad ==
    /\ file \in FoundFiles
    /\ rules = load_rules(file)
    /\ last = NoCall
    /\ upserted = {}
    /\ LoopIdle
    /\ ConcIdle

NextLoad ==
    \/ \E in \in RawInputs, output \in Amounts : AddRule(in, output)
    \/ \E in \in RawInputs : Predict(in)
    \/ SaveRules
    \/ LoadRules

SpecLoad == InitLoad /\ [][NextLoad]_vars

\* the text is not a complete JSON object, or some key of it is no tuple literal
Corrupt(text) ==
    \/ ~JsonValid(text)
    \/ \E i \in 1..Len(text) : text[i].t = "entry" /\ EvalRaises(text[i].key)

test_mode_Updates(f, res) ==
    LET engine == load_rules(f)
        ev == run_evaluation(res, 10)
        up == IF ev.errors = <<>> THEN <<engine, f>>
              ELSE <<AddErrors(engine, ev.errors), save_rules(AddErrors(engine, ev.errors))>>
    IN  [rules |-> up[1], file |-> up[2], score |-> ev.score, errors |-> ev.errors]

\* main, "test": one run_evaluation, its score and errors printed
test_mode(f, res) ==
    LET engine == load_rules(f)
        ev == run_evaluation(res, 10)
    IN  [rules |-> engine, file |-> f, score |-> ev.score, errors |-> ev.errors]

\* main, "init": initialize_rules
init_mode(f, manifest) ==
    LET engine == load_rules(f)
    IN  [rules |-> initialize_from_private_cases(engine, f, manifest)[1],
         file |-> initialize_from_private_cases(engine, f, manifest)[2]]

InitModes ==
    /\ file \in FoundFiles
    /\ rules = EmptyRules
    /\ last = NoCall
    /\ upserted = {}
    /\ LoopIdle
    /\ ConcIdle

TestMode(res) ==
    /\ pc' = "TEST"
    /\ top_n_errors' = 10
    /\ result' = res
    /\ rules' = test_mode(file, res).rules
    /\ file' = test_mode(file, res).file
    /\ score' = test_mode(file, res).score
    /\ errors' = test_mode(file, res).errors
    /\ UNCHANGED <<clientVars, concVars, iteration, max_iterations, best_score,
                   iterations_without_improvement, scored, crashed>>

InitMode(manifest) ==
    /\ pc' = "INIT"
    /\ top_n_errors' = 10
    /\ rules' = init_mode(file, manifest).rules
    /\ file' = init_mode(file, manifest).file
    /\ UNCHANGED <<clientVars, concVars, iteration, max_iterations, best_score,
                   iterations_without_improvement, scored, score, errors, result, crashed>>

NextModes ==
    \/ \E res \in LoopResults : TestMode(res)
    \/ \E manifest \in Manifests : InitMode(manifest)

SpecModes == InitModes /\ [][NextModes]_vars

\* C15: the test mode runs one harness evaluation and reports its score and
\* its error records; whatever the report, the rules file is as it was before
\* the run and the store of the process is the one it loaded at its start.
C15_TestModeMutatesNothing ==
    [][pc' = "TEST" =>
        /\ file' = file
        /\ rules' = load_rules(file)
        /\ score' = run_evaluation(result', 10).score
        /\ errors' = run_evaluation(result', 10).errors]_vars

\* a test run that found two error records whose expected amounts the
\* initialized store does not hold
C15_Witness ==
    /\ pc = "TEST"
    /\ Len(errors) = 2
    /\ score > 0
    /\ get_rule_count(rules) >= 1
    /\ \A k \in 1..Len(errors) :
          predict(rules, errors[k].input[1], errors[k].input[2], errors[k].input[3])
              # errors[k].expected_output

(***************************************************************************)
(* SpecMonitor: monitor_progress.py polling the rules file it finds, sound *)
(* or not, while the loop saves it.                                        *)
(***************************************************************************)
InitMonitor ==
    /\ file \in FoundFiles
    /\ rules = load_rules(file)
    /\ save_pc = "idle"
    /\ pending = <<>>
    /\ previous = file.text
    /\ seen = NoRead
    /\ last = NoCall
    /\ upserted = {}
    /\ LoopIdle

NextMonitor ==
    \/ \E errs \in ConcUpdates : UpdateOpen(errs)
    \/ \E k \in 1..MaxTokens : SaveWrite(k)
    \/ MonitorPoll

SpecMonitor == InitMonitor /\ [][NextMonitor]_vars

\* C16: a poll of the monitor never writes the rules file, and a poll that
\* finds the file missing or unparsable (as in the middle of a save) does not
\* end the monitor: it reports the failure, and the next poll reads the file
\* again, after any number of failed polls in a row.
C16_MonitorTolerant ==
    [][(seen' # seen /\ seen'.by = "monitor") =>
        /\ file' = file
        /\ seen'.alive
        /\ seen'.text = file.text
        /\ seen'.error = (~file.exists \/ ~JsonValid(file.text))
        /\ seen'.error => (seen'.total_rules = 0 /\ seen'.completed_rules = 0)]_vars

\* the monitor read a sound file with a learned rule after as many failed
\* polls in a row as are counted
C16_Witness ==
    /\ seen.by = "monitor"
    /\ seen.alive
    /\ ~seen.error
    /\ seen.after = MaxPolls
    /\ seen.completed_rules >= 1

(***************************************************************************)
(* SpecCli: one run of calculate_reimbursement.py, on any command line and *)
(* any rules file.  An argument is an integer literal ("3"), a literal     *)
(* with a point ("3.0", "100.5") or a word ("abc"): int() reads the first  *)
(* kind only, float() the first two.  last is the run: its arguments, its  *)
(* exit code and what it printed on stdout.                                *)
(***************************************************************************)
ArgInt(n) == [kind |-> "int", lit |-> IntRepr(n)]
ArgFloat(v) == [kind |-> "float", lit |-> FloatRepr(v)]
ArgWord == [kind |-> "word", lit |-> IntRepr(0)]

IntRaises(arg) == arg.kind # "int"
FloatRaises(arg) == arg.kind = "word"

\* f"{amount:.2f}": two digits after the point
Format2(amount) ==
    LET r == Round2(amount)
    IN  [int |-> r \div 1000, frac |-> <<(r % 1000) \div 100, (r % 100) \div 10>>]

\* mutant: days is read as int(float(argv[1]))
calculate_main_DaysAsFloat(argv, f) ==
    IF Len(argv) # 3 THEN [exit_code |-> 1, stdout |-> <<>>]
    ELSE IF FloatRaises(argv[1]) \/ FloatRaises(argv[2]) \/ FloatRaises(argv[3])
    THEN [exit_code |-> 2, stdout |-> <<>>]
    ELSE LET engine == load_rules(f)
             amount == predict(engine, FloatValue(argv[1].lit) \div 1000,
                               FloatValue(argv[2].lit), FloatValue(argv[3].lit))
         IN  [exit_code |-> 0, stdout |-> <<Format2(amount)>>]

\* main of calculate_reimbursement.py; argv is sys.argv[1:]
calculate_main(argv, f) ==
    IF Len(argv) # 3 THEN [exit_code |-> 1, stdout |-> <<>>]
    ELSE IF IntRaises(argv[1]) \/ FloatRaises(argv[2]) \/ FloatRaises(argv[3])
    THEN [exit_code |-> 2, stdout |-> <<>>]
    ELSE LET engine == load_rules(f)
             amount == predict(engine, argv[1].lit.int,
                               FloatValue(argv[2].lit), FloatValue(argv[3].lit))
         IN  [exit_code |-> 0, stdout |-> <<Format2(amount)>>]

Args == {ArgInt(3), ArgInt(45), ArgFloat(3000), ArgFloat(100500), ArgFloat(100504),
         ArgFloat(45000), ArgWord}
CliFiles == {NoFile, save_rules(TwoRules), FileWith(TextWithBadKey)}

InitCli ==
    /\ file \in CliFiles
    /\ rules = EmptyRules
    /\ last = NoCall
    /\ upserted = {}
    /\ LoopIdle
    /\ ConcIdle

Cli(argv) ==
    /\ last.op = "none"
    /\ last' = [op |-> "cli", argv |-> argv,
                exit_code |-> calculate_main(argv, file).exit_code,
                stdout |-> calculate_main(argv, file).stdout]
    /\ UNCHANGED <<storeVars, upserted, loopVars, concVars>>

\* the command lines the run may still be given: none once it has run
CommandLines == IF last.op = "none" THEN SeqsUpTo(Args, MaxArgs) ELSE {}

NextCli == \E argv \in CommandLines : Cli(argv)

SpecCli == InitCli /\ [][NextCli]_vars

Numeric(arg) == arg.kind \in {"int", "float"}

\* C17 as claimed: the lookup CLI exits with code 1 when it is not given
\* exactly three arguments, with code 2 when one of the three is not numeric,
\* and otherwise prints the predicted amount and exits with code 0; it never
\* changes the rules file.
C17_CliExitCodes ==
    [][last'.op = "cli" =>
        LET argv == last'.argv IN
        /\ file' = file
        /\ Len(argv) # 3 => (last'.exit_code = 1 /\ last'.stdout = <<>>)
        /\ (Len(argv) = 3 /\ \E i \in 1..3 : ~Numeric(argv[i]))
              => (last'.exit_code = 2 /\ last'.stdout = <<>>)
        /\ (Len(argv) = 3 /\ \A i \in 1..3 : Numeric(argv[i]))
              => (last'.exit_code = 0 /\ Len(last'.stdout) = 1)]_vars

\* C17 as amended: the lookup CLI exits with code 1 when it is not given
\* exactly three arguments, with code 2 when days is not an integer literal
\* (a numeric "3.0" or "3.5" included) or miles or receipts is not numeric,
\* and otherwise prints the predicted amount with two decimals and exits with
\* code 0; it never changes the rules file.
C17_CliExitCodesTyped ==
    [][last'.op = "cli" =>
        LET argv == last'.argv IN
        /\ file' = file
        /\ Len(argv) # 3 => (last'.exit_code = 1 /\ last'.stdout = <<>>)
        /\ (Len(argv) = 3
              /\ (argv[1].kind # "int" \/ ~Numeric(argv[2]) \/ ~Numeric(argv[3])))
              => (last'.exit_code = 2 /\ last'.stdout = <<>>)
        /\ (Len(argv) = 3 /\ argv[1].kind = "int" /\ Numeric(argv[2]) /\ Numeric(argv[3]))
              => /\ last'.exit_code = 0
                 /\ last'.stdout =
                      <<Format2(predict(load_rules(file), argv[1].lit.int,
                                        FloatValue(argv[2].lit), FloatValue(argv[3].lit)))>>]_vars

\* a run with miles 100.504 that printed the amount learned for 100.5
C17_Witness ==
    /\ last.op = "cli"
    /\ last.exit_code = 0
    /\ last.argv[2] = ArgFloat(100504)
    /\ last.stdout = <<[int |-> 120, frac |-> <<3, 3>>]>>

(***************************************************************************)
(* Claims about the store (SpecStore)                                      *)
(***************************************************************************)
KeyOf(in) == make_key(in[1], in[2], in[3])

\* C1: predict called right after add_rule with the same raw inputs returns
\* exactly the amount that add_rule stored, whatever the store held before.
C1_PredictAfterUpsert ==
    (last.op = "predict" /\ last.prev.op = "add_rule" /\ last.prev.input = last.input)
        => last.amount = last.prev.amount

\* a predict right after an add_rule that overwrote an entry of the store
C1_Witness ==
    /\ last.op = "predict"
    /\ last.prev.op = "add_rule"
    /\ last.prev.input = last.input
    /\ last.amount = 120330
    /\ get_rule_count(rules) >= 2

\* C2: predict on inputs whose canonical key was never upserted returns 0.0,
\* and a predict call changes neither the store nor the rules file.
C2_PredictAbsentIsZero ==
    [][last'.op = "predict" =>
        /\ rules' = rules
        /\ file' = file
        /\ (KeyOf(last'.input) \notin upserted => last'.amount = 0)]_vars

\* predict was called on a never-upserted key while the store holds other keys
C2_Witness ==
    /\ last.op = "predict"
    /\ KeyOf(last.input) \notin upserted
    /\ upserted # {}
    /\ \E k \in DOMAIN rules : rules[k] # 0

ManifestKeys(manifest) ==
    IF manifest.exists
    THEN {KeyOf(manifest.cases[i]) : i \in 1..Len(manifest.cases)}
    ELSE {}

\* C6 as claimed: initialize_from_private_cases leaves the amount of every key
\* that was already in the store as it was.
C6_InitKeepsPresentKeys ==
    [][last'.op = "initialize_from_private_cases" =>
        \A k \in DOMAIN rules : k \in DOMAIN rules' /\ rules'[k] = rules[k]]_vars

\* C6 as amended: initialize_from_private_cases sets every key of the manifest
\* to 0.0, overwriting an amount already stored for it; the keys the manifest
\* does not list keep their amounts, and no key is removed.
C6_InitZeroesManifestKeys ==
    [][last'.op = "initialize_from_private_cases" =>
        /\ DOMAIN rules' = DOMAIN rules \cup ManifestKeys(last'.manifest)
        /\ \A k \in ManifestKeys(last'.manifest) : rules'[k] = 0
        /\ \A k \in DOMAIN rules \ ManifestKeys(last'.manifest) : rules'[k] = rules[k]]_vars

\* initialize_from_private_cases ran on a store that held a learned amount,
\* with a manifest listing some key: after it one key is 0.0, another is learned
C6_Witness ==
    /\ last.op = "initialize_from_private_cases"
    /\ last.prev.op = "add_rule"
    /\ last.manifest.exists
    /\ last.manifest.cases # <<>>
    /\ \E k \in DOMAIN rules : rules[k] # 0

\* C14 as claimed: after initialize_from_private_cases on an empty store the
\* number of rules equals the number of manifest cases and none is non-zero.
C14_InitSizeIsCaseCount ==
    [][(last'.op = "initialize_from_private_cases" /\ last'.manifest.exists
            /\ rules = EmptyRules) =>
        /\ get_rule_count(rules') = Len(last'.manifest.cases)
        /\ get_rule_count(rules') - get_zero_count(rules') = 0]_vars

\* C14 as amended: after initialize_from_private_cases on an empty store the
\* number of rules equals the number of distinct canonical keys among the
\* manifest cases, which is at most the number of cases and equal to it when
\* no two cases have the same canonical key; none is non-zero.
C14_InitSizeIsKeyCount ==
    [][(last'.op = "initialize_from_private_cases" /\ last'.manifest.exists
            /\ rules = EmptyRules) =>
        LET cases == last'.manifest.cases IN
        /\ get_rule_count(rules') = Cardinality(ManifestKeys(last'.manifest))
        /\ get_rule_count(rules') <= Len(cases)
        /\ (\A i, j \in 1..Len(cases) : i # j => KeyOf(cases[i]) # KeyOf(cases[j]))
              => get_rule_count(rules') = Len(cases)
        /\ get_rule_count(rules') - get_zero_count(rules') = 0]_vars

\* a fresh engine was initialized from a manifest of two cases with the same
\* canonical key: one rule
C14_Witness ==
    /\ last.op = "initialize_from_private_cases"
    /\ last.prev.op = "none"
    /\ Len(last.manifest.cases) = 2
    /\ get_rule_count(rules) = 1
    /\ get_zero_count(rules) = 1

\* C8: saving a store and then loading the saved file yields a store with the
\* same canonical keys and the same amount for each key.
C8_SaveLoadRoundTrip ==
    [][(last.op = "save_rules" /\ last'.op = "load_rules") => rules' = rules]_vars

\* a load right after a save of a store with two keys, one with 2 decimals in
\* its miles, and a learned amount
C8_Witness ==
    /\ last.op = "load_rules"
    /\ last.prev.op = "save_rules"
    /\ get_rule_count(rules) >= 2
    /\ \E k \in DOMAIN rules : k[2] % 100 # 0 /\ rules[k] # 0

\* C21: add_rule changes exactly one canonical key: after it predict returns
\* the amount passed for every raw input with the same rounded key as the
\* inputs of the call, and what it returned before the call for every raw
\* input with another rounded key (after add_rule(3, 100.5, 45.0, 120.33),
\* predict(3, 100.51, 45.0) is still 0.0); no other key appears or goes.
C21_UpsertChangesOneKey ==
    [][last'.op = "add_rule" =>
        /\ \A in \in RawInputs :
              IF KeyOf(in) = KeyOf(last'.input)
              THEN predict(rules', in[1], in[2], in[3]) = last'.amount
              ELSE predict(rules', in[1], in[2], in[3]) = predict(rules, in[1], in[2], in[3])
        /\ DOMAIN rules' = DOMAIN rules \cup {KeyOf(last'.input)}
        /\ (last'.input = <<3, 100500, 45000>> /\ predict(rules, 3, 100510, 45000) = 0)
              => predict(rules', 3, 100510, 45000) = 0]_vars

\* add_rule(3, 100.5, 45.0, 120.33) on a store holding 0.0 for the key of
\* 100.51: 100.504 and 100.505 now give 120.33, 100.51 still 0.0
C21_Witness ==
    /\ last.op = "add_rule"
    /\ last.input = <<3, 100500, 45000>>
    /\ last.amount = 120330
    /\ <<3, 100510, 45000>> \in DOMAIN rules
    /\ predict(rules, 3, 100510, 45000) = 0
    /\ predict(rules, 3, 100504, 45000) = 120330
    /\ predict(rules, 3, 100505, 45000) = 120330

(***************************************************************************)
(* Claims about the parser (SpecParse)                                     *)
(***************************************************************************)
\* the records of the report in the order the report lists them
ParsedInOrder == ScanLines(result.stdout, 1, FALSE, NoCase, <<>>).errors

WithMagnitude(errs, m) == SelectSeq(errs, LAMBDA e : e.error_magnitude = m)

IsPrefix(a, b) == Len(a) <= Len(b) /\ a = SubSeq(b, 1, Len(a))

SortedDescending(errs) ==
    \A i, j \in 1..Len(errs) : i < j => errs[i].error_magnitude >= errs[j].error_magnitude

Selected == pc = "extract_errors" /\ ~crashed

\* C9 as claimed: the selection returns at most n records, sorted descending by
\* magnitude, and records of equal magnitude are in ascending case-identifier
\* order whatever their order in the report.
C9_TopNTiesByCaseId ==
    Selected =>
        /\ Len(errors) <= top_n_errors
        /\ SortedDescending(errors)
        /\ \A i, j \in 1..Len(errors) :
              (i < j /\ errors[i].error_magnitude = errors[j].error_magnitude)
                  => errors[i].case_number <= errors[j].case_number

\* C9 as amended: the selection returns at most n records (all of them when the
\* report has no more than n), sorted descending by magnitude, and records of
\* equal magnitude are in the order in which the report lists them.
C9_TopNTiesInReportOrder ==
    Selected =>
        /\ Len(errors) <= top_n_errors
        /\ Len(errors) = top_n_errors \/ Len(errors) = Len(ParsedInOrder)
        /\ SortedDescending(errors)
        /\ \A k \in 1..Len(errors) :
              IsPrefix(WithMagnitude(errors, errors[k].error_magnitude),
                       WithMagnitude(ParsedInOrder, errors[k].error_magnitude))

\* two records of equal magnitude were selected, the report listing case 2
\* before case 1
C9_Witness ==
    /\ Selected
    /\ Len(errors) = 2
    /\ errors[1].error_magnitude = errors[2].error_magnitude
    /\ errors[1].case_number = 2
    /\ errors[2].case_number = 1

\* the lines of the error section: after the first marker, before the closing
\* marker that follows it
InSection(lines, i) ==
    /\ \E m \in 1..(i - 1) : lines[m].kind = "marker"
    /\ ~\E c \in 1..(i - 1) :
          lines[c].kind = "stop" /\ \E m \in 1..(c - 1) : lines[m].kind = "marker"

MalformedAt(lines, i) ==
    \/ lines[i].kind = "case" /\ (Raises(lines[i].miles) \/ Raises(lines[i].receipts))
    \/ lines[i].kind = "metrics"
       /\ (Raises(lines[i].expected) \/ Raises(lines[i].got) \/ Raises(lines[i].error))

\* a case line directly followed by its metrics line, both well formed
WellFormedPairAt(lines, i) ==
    /\ i + 1 <= Len(lines)
    /\ lines[i].kind = "case" /\ ~MalformedAt(lines, i)
    /\ lines[i + 1].kind = "metrics" /\ ~MalformedAt(lines, i + 1)

\* C10: a malformed numeric token in a case line or a metrics line of the error
\* section drops that record only: every well-formed case/metrics pair of the
\* report is still emitted and the evaluation keeps the report's score.
C10_MalformedTokenDropsOneRecord ==
    LET lines == result.stdout IN
    (/\ pc = "run_evaluation"
     /\ result.status = "ok"
     /\ top_n_errors > MaxLines
     /\ ~extract_score_from_output(lines).raised
     /\ \E i \in 1..Len(lines) : InSection(lines, i) /\ MalformedAt(lines, i))
    => /\ score = extract_score_from_output(lines).score
       /\ \A i \in 1..Len(lines) :
             (InSection(lines, i) /\ WellFormedPairAt(lines, i))
                 => \E k \in 1..Len(errors) :
                       /\ errors[k].case_number = lines[i].case_number
                       /\ errors[k].expected_output = FloatValue(lines[i + 1].expected.lit)

\* a line of the error section that starts with "Case", matching the case
\* pattern or not
CaseStartAt(lines, i) ==
    InSection(lines, i) /\ lines[i].kind \in {"case", "case_nomatch"}

MetricsAt(lines, j) == InSection(lines, j) /\ lines[j].kind = "metrics"

\* <<i, j>>: the metrics line j and the nearest case line i before it, with no
\* other metrics line between them and the case line well formed
ReportPairs(lines) ==
    {p \in (1..Len(lines)) \X (1..Len(lines)) :
        /\ p[1] < p[2]
        /\ MetricsAt(lines, p[2])
        /\ CaseStartAt(lines, p[1])
        /\ lines[p[1]].kind = "case"
        /\ \A k \in (p[1] + 1)..(p[2] - 1) :
              ~CaseStartAt(lines, k) /\ ~MetricsAt(lines, k)}

RecordOf(lines, p) ==
    [case_number |-> lines[p[1]].case_number,
     input |-> <<lines[p[1]].days, FloatValue(lines[p[1]].miles.lit),
                 FloatValue(lines[p[1]].receipts.lit)>>,
     expected_output |-> FloatValue(lines[p[2]].expected.lit)]

\* C11: every record the parser emits combines a metrics line of the error
\* section with the input of the nearest case line before it, each case line
\* yields at most one record, and a case line with no metrics line before the
\* next case line (well formed or not) or the end of the section yields none.
C11_RecordPairsNearestCase ==
    LET lines == result.stdout IN
    (pc = "extract_errors" /\ ~crashed /\ top_n_errors > MaxLines)
    => /\ Len(errors) = Cardinality(ReportPairs(lines))
       /\ \A k \in 1..Len(errors) :
             \E p \in ReportPairs(lines) :
                 RecordOf(lines, p) =
                     [case_number |-> errors[k].case_number,
                      input |-> errors[k].input,
                      expected_output |-> errors[k].expected_output]

\* the report has a line of this kind
HasKind(lines, kind) == \E i \in 1..Len(lines) : lines[i].kind = kind

\* C12: extract_score_from_output returns the exact-match percentage when the
\* report has one, also when an average-error line is present; otherwise
\* max(0, 100 - average error) when it has an average-error line; otherwise
\* 0.0.  "Exact matches: 50 (25.0%)" gives 25.0, a report with only
\* "Average error: $10.00" gives 90.0.  (Numbers that float() reads.)
C12_ScoreFromReport ==
    LET lines == result.stdout IN
    (pc = "extract_score" /\ ~crashed)
    => /\ \A i \in 1..Len(lines) :
             lines[i].kind = "exact" => score = FloatValue(lines[i].pct.lit)
       /\ ~HasKind(lines, "exact") =>
             \A i \in 1..Len(lines) :
                 lines[i].kind = "average" =>
                     LET avg_error == FloatValue(lines[i].avg.lit)
                     IN  score = IF avg_error < 100000 THEN 100000 - avg_error ELSE 0
       /\ (~HasKind(lines, "exact") /\ ~HasKind(lines, "average")) => score = 0
       /\ lines = <<Average10>> => score = 90000
       /\ lines = <<Exact25>> => score = 25000

\* the score of a report with both lines, the average-error line first
C12_Witness ==
    /\ pc = "extract_score"
    /\ ~crashed
    /\ HasKind(result.stdout, "exact")
    /\ HasKind(result.stdout, "average")
    /\ FirstOfKind(result.stdout, "average") < FirstOfKind(result.stdout, "exact")
    /\ score = 25000

(***************************************************************************)
(* Claims about the improvement loop (Spec, SpecAlways10)                  *)
(***************************************************************************)
\* C3: the loop runs at most max_iterations iterations and stops in one of
\* CONVERGED, STAGNATED, EXHAUSTED, each a successful exit: no run ends with an
\* error, also when the store is still empty or max_iterations is 0.
C3_LoopEndsWithoutError ==
    /\ iteration <= max_iterations
    /\ pc \in Terminal => ~crashed

\* C4: with target_score 95, a stagnation window of 2 and a harness that
\* always scores 10.0 (and max_iterations of at least 3), the loop stops as
\* STAGNATED after exactly 3 iterations and never as CONVERGED.
C4_StagnatesAfterThree ==
    /\ pc # "CONVERGED"
    /\ pc = "STAGNATED" => iteration = 3
    /\ max_iterations >= 3 =>
          /\ iteration <= 3
          /\ pc \in Terminal => pc = "STAGNATED"

\* the loop stopped as STAGNATED after the baseline and two stagnant iterations
C4_Witness ==
    /\ pc = "STAGNATED"
    /\ iteration = 3
    /\ best_score = 10000
    /\ iterations_without_improvement = 2

\* C5: when the harness exits non-zero or cannot be started, the iteration has
\* score 0.0 and no error records, leaves the store and the rules file as they
\* were, raises nothing, and goes on to the convergence check.
C5_HarnessFailureScoresZero ==
    [][/\ (pc = "EVALUATING" /\ pc' = "UPDATING" /\ result'.status # "ok")
            => (score' = 0 /\ errors' = <<>> /\ rules' = rules /\ file' = file /\ ~crashed')
       /\ (pc = "UPDATING" /\ result.status # "ok")
            => (pc' = "CHECKING" /\ rules' = rules /\ file' = file /\ ~crashed')]_vars

\* a failed harness run in a later iteration, on a store with a learned amount,
\* arrived at the convergence check
C5_Witness ==
    /\ pc = "CHECKING"
    /\ result.status # "ok"
    /\ iteration >= 2
    /\ score = 0
    /\ \E k \in DOMAIN rules : rules[k] # 0

\* C18: after each iteration the stop conditions are tested in the order
\* (a) score >= target: CONVERGED, (b) no improvement of the best score for 2
\* iterations in a row: STAGNATED, (c) iteration count at the maximum:
\* EXHAUSTED; when several hold the earlier one decides, and another
\* iteration starts only if none holds.
C18_StopConditionOrder ==
    [][(pc = "CHECKING" /\ pc' # "CHECKING") =>
        LET converged == score >= target_score
            stagnated == /\ score <= best_score
                         /\ iterations_without_improvement + 1 >= max_stagnant_iterations
            exhausted == iteration >= max_iterations
        IN  /\ converged => pc' = "CONVERGED"
            /\ (~converged /\ stagnated) => pc' = "STAGNATED"
            /\ (~converged /\ ~stagnated /\ exhausted) => pc' = "EXHAUSTED"
            /\ (pc' = "EVALUATING") <=> (~converged /\ ~stagnated /\ ~exhausted)]_vars

\* the loop stopped as STAGNATED in its last allowed iteration, where the
\* iteration count had reached the maximum as well
C18_Witness ==
    /\ pc = "STAGNATED"
    /\ iteration = max_iterations
    /\ score < target_score
    /\ iterations_without_improvement = max_stagnant_iterations

C20_KeysOnlyGrow ==
    [][/\ DOMAIN rules \subseteq DOMAIN rules'
       /\ get_rule_count(rules) <= get_rule_count(rules')
       /\ (pc = "UPDATING" /\ pc' = "CHECKING") =>
             Cardinality(DOMAIN rules' \ DOMAIN rules) <= top_n_errors
       /\ pc \notin {"UNINITIALIZED", "UPDATING"} => DOMAIN rules' = DOMAIN rules]_vars

\* with top_n_errors 1 and a report of two records with keys the store did
\* not hold, a later iteration left the store with two keys
C20_Witness ==
    /\ pc = "CHECKING"
    /\ top_n_errors = 1
    /\ result.status = "ok"
    /\ Len(ParsedInOrder) = 2
    /\ iteration >= 2
    /\ get_rule_count(rules) = 2

MaxOf(S) == CHOOSE x \in S : \A y \in S : y <= x

\* best_score is the largest of 0.0 and the scores of the iterations that did
\* not end the loop at the target; the counter is within 0..2
LoopStateOk ==
    /\ best_score >= 0
    /\ best_score = MaxOf({0} \cup scored)
    /\ iterations_without_improvement \in 0..max_stagnant_iterations

\* C22 as claimed: in every state of the loop best_score is >= 0, never
\* decreases and is the largest of 0.0 and the scores of the completed
\* iterations that did not end the loop; the stagnation counter is within
\* 0..2, is reset to 0 exactly on an iteration whose score exceeds best_score
\* and grows by exactly 1 on every other iteration.
C22_LoopStateEveryIteration ==
    /\ LoopStateOk
    /\ [][/\ LoopStateOk'
          /\ best_score' >= best_score
          /\ pc # "CHECKING" =>
                iterations_without_improvement' = iterations_without_improvement
          /\ (pc = "CHECKING" /\ pc' # pc) =>
                iterations_without_improvement' =
                    IF score > best_score THEN 0
                    ELSE iterations_without_improvement + 1]_vars

\* C22 as amended: as claimed for every iteration whose score is below the
\* target; an iteration whose score reaches the target ends the loop before
\* the update and leaves best_score and the stagnation counter as they were.
C22_LoopStateBelowTarget ==
    /\ LoopStateOk
    /\ [][/\ LoopStateOk'
          /\ best_score' >= best_score
          /\ pc # "CHECKING" =>
                (/\ iterations_without_improvement' = iterations_without_improvement
                 /\ best_score' = best_score)
          /\ (pc = "CHECKING" /\ pc' # pc /\ score < target_score) =>
                /\ iterations_without_improvement' =
                      IF score > best_score THEN 0
                      ELSE iterations_without_improvement + 1
                /\ best_score' = IF score > best_score THEN score ELSE best_score
          /\ (pc = "CHECKING" /\ pc' # pc /\ score >= target_score) =>
                /\ iterations_without_improvement' = iterations_without_improvement
                /\ best_score' = best_score]_vars

\* the loop reached the target in its third iteration, after a best score of
\* 10.0 and one stagnant iteration: the counter is still 1
C22_Witness ==
    /\ pc = "CONVERGED"
    /\ iteration = 3
    /\ score >= target_score
    /\ best_score = 10000
    /\ scored = {10000}
    /\ iterations_without_improvement = 1

\* with every evaluation scoring 0.0 the loop never converges and, given at
\* least 2 iterations to run, stops as STAGNATED after exactly 2
StagnatesAfterTwo ==
    /\ pc # "CONVERGED"
    /\ pc \notin {"UNINITIALIZED", "EVALUATING"} => score = 0
    /\ best_score = 0
    /\ pc = "STAGNATED" => iteration = 2
    /\ max_iterations >= 2 =>
          /\ iteration <= 2
          /\ pc \in Terminal => pc = "STAGNATED"

\* C23 as claimed: with a harness that fails or reports score 0.0 on every
\* invocation the loop stops as STAGNATED after exactly 2 iterations, and the
\* store and the rules file stay as they were after seeding.
C23_ZeroHarnessStoreUnchanged ==
    /\ StagnatesAfterTwo
    /\ [][/\ StagnatesAfterTwo'
          /\ pc # "UNINITIALIZED" => (rules' = rules /\ file' = file)]_vars

\* C23 as amended: the loop stops as STAGNATED after exactly 2 iterations;
\* an iteration whose harness failed, or whose report lists no record, leaves
\* the store and the rules file as they were, and an iteration whose report
\* lists records upserts the selected ones and saves the file.
C23_ZeroHarnessStoreLearnsRecords ==
    /\ StagnatesAfterTwo
    /\ (pc = "UPDATING" /\ result.status # "ok") => errors = <<>>
    /\ [][/\ StagnatesAfterTwo'
          /\ ((pc = "UPDATING" /\ result'.status # "ok") => errors' = <<>>)
          /\ (pc # "UNINITIALIZED" /\ (pc # "UPDATING" \/ errors = <<>>)) =>
                (rules' = rules /\ file' = file)
          /\ (pc = "UPDATING" /\ pc' # pc /\ errors # <<>>) =>
                /\ rules' = AddErrors(rules, errors)
                /\ file' = save_rules(rules')
                /\ \A i \in 1..Len(errors) :
                      predict(rules', errors[i].input[1], errors[i].input[2],
                              errors[i].input[3]) # 0 \/ errors[i].expected_output = 0
                      \/ \E j \in (i+1)..Len(errors) :
                            KeyOf(errors[j].input) = KeyOf(errors[i].input)]_vars

\* the loop stopped as STAGNATED after 2 iterations of score 0.0 and the
\* store holds an amount that only a report's record can have put there
C23_Witness ==
    /\ pc = "STAGNATED"
    /\ iteration = 2
    /\ score = 0
    /\ best_score = 0
    /\ result.status = "ok"
    /\ predict(rules, 1, 100500, 45000) = 50000
    /\ file = save_rules(rules)

====
